---- MODULE Spec2Model ----
(***************************************************************************)
(* A model of geovisualisasi_ntl.py: the bright-pixel filter, the          *)
(* administrative-boundary masking and the four visualization pipelines    *)
(* that setup_geospatial_visualization drives.                             *)
(*                                                                         *)
(* Numbers.  A floating-point sample is a record [nan, num, den]: either   *)
(* the not-a-number marker or the exact rational num/den (den > 0).        *)
(* Radiances and thresholds are counted in units of 1/Scale, so 0.01 is    *)
(* Rat(1, Scale) and the slider step 0.01 is one unit.  Arithmetic is      *)
(* exact; rounding of IEEE doubles is not modelled.                        *)
(*                                                                         *)
(* Arrays.  A raster band is a function from its positions 1..ArrLen to    *)
(* samples; every operation of the program on arrays is elementwise, so    *)
(* the two-dimensional shape is represented by the domain of the function. *)
(***************************************************************************)
EXTENDS Integers, Sequences, FiniteSets, TLC

VARIABLES
    pc,                    \* position of the script / of the function under test
    remove_black_blocks,   \* checkbox "Hilangkan Blok Hitam"
    brightness_threshold,  \* slider value, a rational
    min_pixel_value,       \* the filter's min_pixel_value argument
    n_rasters,             \* len(raster_paths)
    viz_type,              \* selected "Tipe Visualisasi"
    fn,                    \* which pipeline (caller of the mask / filter) is running
    i,                     \* index of the raster being processed (0-based)
    admin_files,           \* what the sidebar uploader holds
    shp_file,              \* whether a .shp file is among the uploaded files
    shp_content,           \* the vector layer stored in the uploaded .shp
    admin_attribute,       \* python value: None or a column name
    admin_value,           \* python value: None or an attribute value
    admin_shapefile_path,  \* python value: None or the path handed to the pipelines
    fs,                    \* set of paths that exist on disk
    raw,                   \* band 1 as read from the raster file
    src_nodata,            \* src.nodata of the raster file
    crs,                   \* src.crs of the raster file
    data,                  \* the caller's variable `data`
    mask_in,               \* raster_data argument of the last mask call
    mask_ret,              \* what the last mask call did and returned
    filter_in,             \* data argument of the last filter call
    data_cleaned,          \* result of the last filter call
    shown,                 \* the array handed to rendering / statistics
    total_pixel_count,     \* 'Total Area (px)'
    overlay,               \* features put on the interactive map
    errors,                \* messages reported through st.error / st.warning
    n_cols,                \* plot_ntl_comparison: columns of the grid
    n_rows,                \* plot_ntl_comparison: rows of the grid
    axes,                  \* plot_ntl_comparison: axes.flat, the panels in row-major order
    j                      \* plot_ntl_comparison: index of the panel being hidden

vars == <<pc, remove_black_blocks, brightness_threshold, min_pixel_value, n_rasters,
          viz_type, fn, i, admin_files, shp_file, shp_content, admin_attribute,
          admin_value, admin_shapefile_path, fs, raw, src_nodata, crs, data, mask_in,
          mask_ret, filter_in, data_cleaned, shown, total_pixel_count, overlay,
          errors, n_cols, n_rows, axes, j>>

\* the state of plot_ntl_comparison's grid
gridvars == <<n_cols, n_rows, axes, j>>

----------------------------------------------------------------------------
(* Bounds of the model *)

ArrLen == 2        \* samples per raster band in the pipelines
FilterLen == 3     \* samples per array handed to the filter on its own
MaxRasters == 2    \* uploaded raster files

(* Program constants *)

Scale == 100              \* units per 1.0: the slider step is 0.01
DefaultMinPixelValue == 1 \* min_pixel_value=0.01
MaskFillValue == 0        \* rasterio.mask fills with 0 when the file has no nodata

Pos == 1..ArrLen

----------------------------------------------------------------------------
(* Floating-point samples *)

NaN == [nan |-> TRUE, num |-> 0, den |-> 1]
Rat(n, d) == [nan |-> FALSE, num |-> n, den |-> d]
Num(v) == Rat(v, Scale)

isnan(x) == x.nan

\* IEEE comparison: any comparison with NaN is False
Gt(a, b) == ~a.nan /\ ~b.nan /\ a.num * b.den > b.num * a.den
FEq(a, b) == ~a.nan /\ ~b.nan /\ a.num * b.den = b.num * a.den

Abs(n) == IF n < 0 THEN -n ELSE n

RECURSIVE GCD(_, _)
GCD(a, b) == IF b = 0 THEN a ELSE GCD(b, a % b)

\* the rational n/d (d > 0) in lowest terms
Lowest(n, d) == LET g == GCD(Abs(n), d) IN Rat(n \div g, d \div g)

\* a - b and a / b; NaN propagates, and 0/0 is NaN as numpy computes it
FSub(a, b) ==
    IF a.nan \/ b.nan THEN NaN
    ELSE Lowest(a.num * b.den - b.num * a.den, a.den * b.den)

FDiv(a, b) ==
    IF a.nan \/ b.nan \/ b.num = 0 THEN NaN
    ELSE IF b.num > 0 THEN Lowest(a.num * b.den, a.den * b.num)
    ELSE Lowest(-(a.num * b.den), a.den * (-b.num))

NonNan(arr) == {p \in DOMAIN arr : ~isnan(arr[p])}

\* np.nanmin / np.nanmax: the extreme over the non-NaN samples, NaN if there is none
nanmin(arr) ==
    IF NonNan(arr) = {} THEN NaN
    ELSE arr[CHOOSE p \in NonNan(arr) : \A q \in NonNan(arr) : ~Gt(arr[p], arr[q])]

nanmax(arr) ==
    IF NonNan(arr) = {} THEN NaN
    ELSE arr[CHOOSE p \in NonNan(arr) : \A q \in NonNan(arr) : ~Gt(arr[q], arr[p])]

----------------------------------------------------------------------------
(* remove_black_blocks_and_keep_bright_pixels *)

\* the guard of the normalisation (and a variant with a non-strict comparison)
NormalizeGuard_NoStrict(arr) == ~Gt(nanmin(arr), nanmax(arr))
NormalizeGuard(arr) == Gt(nanmax(arr), nanmin(arr))

\* data_normalized
data_normalized(arr) ==
    IF NormalizeGuard(arr)
    THEN [p \in DOMAIN arr |->
            FDiv(FSub(arr[p], nanmin(arr)), FSub(nanmax(arr), nanmin(arr)))]
    ELSE arr

\* whether evaluating data_normalized divides by zero
DividesByZero(arr) ==
    /\ NormalizeGuard(arr)
    /\ LET d == FSub(nanmax(arr), nanmin(arr)) IN ~d.nan /\ d.num = 0

\* bright_mask (preceded by a variant that compares with >=)
bright_mask_GE(arr, threshold) ==
    [p \in DOMAIN arr |-> ~isnan(data_normalized(arr)[p])
                          /\ ~Gt(threshold, data_normalized(arr)[p])]
bright_mask(arr, threshold) ==
    [p \in DOMAIN arr |-> Gt(data_normalized(arr)[p], threshold)]

\* valid_mask (preceded by a variant that compares with >=)
valid_mask_GE(arr, minval) ==
    [p \in DOMAIN arr |-> ~Gt(minval, arr[p]) /\ ~isnan(arr[p])]
valid_mask(arr, minval) ==
    [p \in DOMAIN arr |-> Gt(arr[p], minval) /\ ~isnan(arr[p])]

final_mask(arr, threshold, minval) ==
    [p \in DOMAIN arr |-> bright_mask(arr, threshold)[p] /\ valid_mask(arr, minval)[p]]

\* np.where(final_mask, data, np.nan): a new array
remove_black_blocks_and_keep_bright_pixels(arr, threshold, minval) ==
    [p \in DOMAIN arr |-> IF final_mask(arr, threshold, minval)[p] THEN arr[p] ELSE NaN]

\* the caller's array after the call: no statement of the function writes into it
\* (preceded by a variant that filters in place)
InputAfterFilter_InPlace(arr, threshold, minval) ==
    remove_black_blocks_and_keep_bright_pixels(arr, threshold, minval)
InputAfterFilter(arr, threshold, minval) == arr

----------------------------------------------------------------------------
(* Python values: None, integers and strings, with Python's truth value *)

PyNone == [t |-> "none", n |-> 0, s |-> ""]
PyInt(k) == [t |-> "int", n |-> k, s |-> ""]
PyStr(x) == [t |-> "str", n |-> 0, s |-> x]

\* bool(x): None, 0 and "" are false
Truthy(x) ==
    CASE x.t = "none" -> FALSE
      [] x.t = "int" -> x.n # 0
      [] OTHER -> x.s # ""

\* src.nodata: None or a number
NoNodata == [none |-> TRUE, val |-> NaN]
Nodata(v) == [none |-> FALSE, val |-> Num(v)]

\* the elementwise test `array == src.nodata`: all False against None
EqNodata(x, nd) == ~nd.none /\ FEq(x, nd.val)

----------------------------------------------------------------------------
(* Files and vector layers *)

\* a path on disk: a name, and a serial number for names the system makes up
Path(name, k) == [name |-> name, k |-> k]
ShpPath == Path("shp_tmpdir/batas.shp", 0)   \* os.path.join(tmpdir, shp_file.name)
RasterDir == Path("raster_tmpdir", 0)        \* the second TemporaryDirectory

\* the file a python path string names
PathOf(x) == Path(x.s, 0)

\* tempfile.NamedTemporaryFile(suffix='.tif', delete=False): a name not in use
TmpTif(files) == Path("tmp.tif", 1 + Cardinality({f \in files : f.name = "tmp.tif"}))

Column == "KODE"                       \* the attribute column of the layer

\* a feature: its attribute value and the pixels whose centre its geometry covers
Feature(v, g) == [val |-> v, geom |-> g]

\* a layer: whether geopandas can read it, its CRS and its features
Layer(r, c, f) == [readable |-> r, crs |-> c, features |-> f]

FeatureLists ==
    { <<>>,
      <<Feature(PyInt(0), {1}), Feature(PyInt(1), {2})>>,
      <<Feature(PyStr(""), {1}), Feature(PyStr("A"), {1, 2})>> }

LayerCRSs == {"none", "EPSG:4326", "EPSG:32748"}
RasterCRSs == {"EPSG:4326"}

Layers ==
    {Layer(TRUE, c, f) : c \in LayerCRSs, f \in FeatureLists}
    \cup {Layer(FALSE, "none", <<>>)}

NoLayer == Layer(FALSE, "none", <<>>)

\* admin_gdf[admin_gdf[admin_attribute] == admin_value]
FeaturesWithValue(layer, value) ==
    {k \in DOMAIN layer.features : layer.features[k].val = value}

\* the rows of admin_gdf after the optional attribute filter
FilterByAttribute(layer, attribute, value) ==
    IF Truthy(attribute) /\ Truthy(value)
    THEN FeaturesWithValue(layer, value)
    ELSE DOMAIN layer.features

\* the pixels covered by the geometries in shapes
Covered(layer, shapes) == UNION {layer.features[k].geom : k \in shapes}

----------------------------------------------------------------------------
(* mask_with_administrative_boundaries *)

\* the profile of the temporary raster names no nodata value
TmpNodata == NoNodata

\* rasterio.mask.mask(src, shapes, crop=False, filled=True): pixels outside the
\* shapes are filled with the file's nodata value, or with 0 when it has none
MaskFill(nd) == IF nd.none THEN Num(MaskFillValue) ELSE nd.val

out_image(raster_data, inside, nd) ==
    [p \in DOMAIN raster_data |-> IF p \in inside THEN raster_data[p] ELSE MaskFill(nd)]

\* masked_data[out_image[0] == src.nodata] = np.nan
masked_data(raster_data, inside, nd) ==
    [p \in DOMAIN raster_data |->
        IF EqNodata(out_image(raster_data, inside, nd)[p], nd)
        THEN NaN ELSE out_image(raster_data, inside, nd)[p]]

\* input/output errors the environment may produce during a call: none, rasterio
\* cannot write the temporary raster, or the temporary raster cannot be deleted
IOFailures == {"", "write", "unlink"}

\* the step of the try block that raises, "" when none does
FailingStep(raster_crs, path, attribute, value, files, layer, io_failure) ==
    LET shapes == FilterByAttribute(layer, attribute, value)
    IN  IF ~(PathOf(path) \in files /\ layer.readable) THEN "read"
        ELSE IF Truthy(attribute) /\ Truthy(value) /\ attribute.s # Column THEN "filter"
        ELSE IF layer.crs # raster_crs /\ "none" \in {layer.crs, raster_crs} THEN "to_crs"
        ELSE IF io_failure = "write" THEN "write"
        ELSE IF shapes = {} THEN "mask"
        ELSE IF io_failure = "unlink" THEN "unlink"
        ELSE ""

\* whether os.unlink(tmp_raster.name) is reached and deletes the file
TmpUnlinked(step) == step = ""

\* the call as a whole: what it returns, what it reports and what it leaves on disk
\* (preceded by a variant without the except clause)
MaskCall_Raises(raster_data, raster_crs, path, attribute, value, files, layer, io_failure) ==
    LET step == FailingStep(raster_crs, path, attribute, value, files, layer, io_failure)
    IN  [called |-> TRUE, step |-> step, raised |-> step # "",
         data |-> raster_data, bounds_none |-> TRUE, inside |-> {},
         shapes |-> {}, reported |-> FALSE, created |-> FALSE,
         tmp |-> TmpTif(files), files |-> files]
mask_with_administrative_boundaries(raster_data, raster_crs, path, attribute, value, files, layer, io_failure) ==
    LET step == FailingStep(raster_crs, path, attribute, value, files, layer, io_failure)
        shapes == FilterByAttribute(layer, attribute, value)
        inside == Covered(layer, shapes)
        created == step \in {"write", "mask", "unlink", ""}
    IN  [called |-> TRUE,
         step |-> step,
         raised |-> FALSE,
         data |-> IF step = "" THEN masked_data(raster_data, inside, TmpNodata)
                  ELSE raster_data,
         bounds_none |-> step # "",
         inside |-> IF step = "" THEN inside ELSE {},
         shapes |-> IF step \in {"to_crs", "write", "mask", "unlink", ""} THEN shapes ELSE {},
         reported |-> step # "",
         created |-> created,
         tmp |-> TmpTif(files),
         files |-> IF created /\ ~TmpUnlinked(step) THEN files \cup {TmpTif(files)}
                   ELSE files]

NoMaskCall ==
    [called |-> FALSE, step |-> "", raised |-> FALSE, data |-> <<>>, bounds_none |-> TRUE,
     inside |-> {}, shapes |-> {}, reported |-> FALSE, created |-> FALSE,
     tmp |-> Path("tmp.tif", 0), files |-> {}]

----------------------------------------------------------------------------
(* The pipelines: open a raster, mask it, filter it, render it *)

VizTypes == {"Peta Interaktif", "Grid Comparison", "Analisis Statistik", "Single View"}

\* the pipeline a visualization type starts with
FirstPass(v) ==
    CASE v = "Peta Interaktif" -> "map"
      [] v = "Grid Comparison" -> "grid"
      [] v = "Analisis Statistik" -> "stats"
      [] OTHER -> "single"

RawValues == {-99900, 0, 60}
RawArrays == [Pos -> {Num(v) : v \in RawValues}]
Nodatas == {NoNodata, Nodata(-99900)}
Thresholds == {Num(10), Num(50)}

\* "Handle no data values": the interactive map writes 0, every other pipeline NaN
NodataReplacement(f) == IF f = "map" THEN Num(0) ELSE NaN

ReplaceNodata(f, arr, nd) ==
    [p \in DOMAIN arr |-> IF EqNodata(arr[p], nd) THEN NodataReplacement(f) ELSE arr[p]]

NoArray == <<>>

\* np.nan_to_num
nan_to_num(arr) == [p \in DOMAIN arr |-> IF isnan(arr[p]) THEN Num(0) ELSE arr[p]]

\* the caller's `data` after the filter step
DataAfterFilter(f, arr, on, threshold) ==
    IF ~on THEN arr
    ELSE LET cleaned == remove_black_blocks_and_keep_bright_pixels(
                            arr, threshold, Num(DefaultMinPixelValue))
         IN  CASE f = "map" -> nan_to_num(cleaned)
               [] f \in {"stats", "single_stats"} ->
                    InputAfterFilter(arr, threshold, Num(DefaultMinPixelValue))
               [] OTHER -> cleaned

\* data_cleaned of the statistics, the filter's result elsewhere
CleanedAfterFilter(f, arr, on, threshold) ==
    IF on
    THEN remove_black_blocks_and_keep_bright_pixels(arr, threshold, Num(DefaultMinPixelValue))
    ELSE IF f \in {"stats", "single_stats"} THEN arr
    ELSE NoArray

\* what goes to imshow / imsave / the statistics
Rendered(f, arr, cleaned) ==
    CASE f = "map" -> data_normalized(arr)
      [] f \in {"stats", "single_stats"} -> cleaned
      [] OTHER -> arr


OpenRaster ==
    /\ pc = "open"
    /\ \E r \in RawArrays, nd \in Nodatas, c \in RasterCRSs :
        /\ raw' = r
        /\ src_nodata' = nd
        /\ crs' = c
        /\ data' = ReplaceNodata(fn, r, nd)
    /\ mask_in' = NoArray
    /\ mask_ret' = NoMaskCall
    /\ filter_in' = NoArray
    /\ data_cleaned' = NoArray
    /\ shown' = NoArray
    /\ total_pixel_count' = 0
    /\ pc' = "mask"
    /\ UNCHANGED gridvars
    /\ UNCHANGED <<remove_black_blocks, brightness_threshold, min_pixel_value, n_rasters,
                   viz_type, fn, i, admin_files, shp_file, shp_content, admin_attribute,
                   admin_value, admin_shapefile_path, fs, overlay, errors>>

CallMask ==
    /\ pc = "mask"
    /\ \E io_failure \in IOFailures :
        LET r == IF Truthy(admin_shapefile_path)
                 THEN mask_with_administrative_boundaries(
                          data, crs, admin_shapefile_path, admin_attribute, admin_value,
                          fs, shp_content, io_failure)
                 ELSE NoMaskCall
        IN  /\ mask_ret' = r
            /\ mask_in' = IF r.called THEN data ELSE NoArray
            /\ data' = IF r.called /\ ~r.raised THEN r.data ELSE data
            /\ fs' = IF r.called THEN r.files ELSE fs
            /\ errors' = IF r.reported THEN errors + 1 ELSE errors
            /\ pc' = IF r.raised THEN "raised" ELSE "filter"
    /\ UNCHANGED gridvars
    /\ UNCHANGED <<remove_black_blocks, brightness_threshold, min_pixel_value, n_rasters,
                   viz_type, fn, i, admin_files, shp_file, shp_content, admin_attribute,
                   admin_value, admin_shapefile_path, raw, src_nodata, crs, filter_in,
                   data_cleaned, shown, total_pixel_count, overlay>>

ApplyFilter ==
    /\ pc = "filter"
    /\ filter_in' = IF remove_black_blocks THEN data ELSE NoArray
    /\ data_cleaned' = CleanedAfterFilter(fn, data, remove_black_blocks, brightness_threshold)
    /\ data' = DataAfterFilter(fn, data, remove_black_blocks, brightness_threshold)
    /\ pc' = "render"
    /\ UNCHANGED gridvars
    /\ UNCHANGED <<remove_black_blocks, brightness_threshold, min_pixel_value, n_rasters,
                   viz_type, fn, i, admin_files, shp_file, shp_content, admin_attribute,
                   admin_value, admin_shapefile_path, fs, raw, src_nodata, crs, mask_in,
                   mask_ret, shown, total_pixel_count, overlay, errors>>

\* what follows the rendering of raster i in pipeline f: <<pipeline, index, position>>
AfterRender(f, k, n) ==
    IF f \in {"map", "grid", "stats", "trend"} /\ k + 1 < n THEN <<f, k + 1, "open">>
    ELSE IF f = "stats" /\ n > 1 THEN <<"trend", 0, "open">>
    ELSE IF f = "single" THEN <<"single_stats", k, "open">>
    ELSE <<f, k, "cleanup">>

Render ==
    /\ pc = "render"
    /\ shown' = Rendered(fn, data, data_cleaned)
    /\ total_pixel_count' =
          IF fn \in {"stats", "single_stats"} THEN Cardinality(NonNan(data)) ELSE 0
    /\ fn' = AfterRender(fn, i, n_rasters)[1]
    /\ i' = AfterRender(fn, i, n_rasters)[2]
    /\ pc' = AfterRender(fn, i, n_rasters)[3]
    /\ UNCHANGED gridvars
    /\ UNCHANGED <<remove_black_blocks, brightness_threshold, min_pixel_value, n_rasters,
                   viz_type, admin_files, shp_file, shp_content, admin_attribute,
                   admin_value, admin_shapefile_path, fs, raw, src_nodata, crs, data,
                   mask_in, mask_ret, filter_in, data_cleaned, overlay, errors>>

\* the boundary overlay of create_interactive_ntl_map
NoOverlay == [added |-> FALSE, shapes |-> {}]

OverlayOf(path, attribute, value, files, layer) ==
    IF ~Truthy(path) THEN NoOverlay
    ELSE IF ~(PathOf(path) \in files /\ layer.readable) THEN NoOverlay
    ELSE IF Truthy(attribute) /\ Truthy(value) /\ attribute.s # Column THEN NoOverlay
    ELSE [added |-> TRUE, shapes |-> FilterByAttribute(layer, attribute, value)]

AddBoundaryOverlay ==
    /\ pc = "overlay"
    /\ overlay' = OverlayOf(admin_shapefile_path, admin_attribute, admin_value, fs,
                            shp_content)
    /\ errors' = IF Truthy(admin_shapefile_path) /\ ~overlay'.added
                 THEN errors + 1 ELSE errors
    /\ pc' = "open"
    /\ UNCHANGED gridvars
    /\ UNCHANGED <<remove_black_blocks, brightness_threshold, min_pixel_value, n_rasters,
                   viz_type, fn, i, admin_files, shp_file, shp_content, admin_attribute,
                   admin_value, admin_shapefile_path, fs, raw, src_nodata, crs, data,
                   mask_in, mask_ret, filter_in, data_cleaned, shown, total_pixel_count>>

\* leaving `with tempfile.TemporaryDirectory() as tmpdir` of the rasters
Cleanup ==
    /\ pc = "cleanup"
    /\ fs' = fs \ {RasterDir}
    /\ pc' = "done"
    /\ UNCHANGED gridvars
    /\ UNCHANGED <<remove_black_blocks, brightness_threshold, min_pixel_value, n_rasters,
                   viz_type, fn, i, admin_files, shp_file, shp_content, admin_attribute,
                   admin_value, admin_shapefile_path, raw, src_nodata, crs, data, mask_in,
                   mask_ret, filter_in, data_cleaned, shown, total_pixel_count, overlay,
                   errors>>

PipelineNext == AddBoundaryOverlay \/ OpenRaster \/ CallMask \/ ApplyFilter \/ Render \/ Cleanup

----------------------------------------------------------------------------
(* setup_geospatial_visualization: one run of the script *)

\* what the sidebar uploader may hold: the extensions of the uploaded files
Uploads == { <<>>, <<"dbf">>, <<"shp", "shx", "dbf", "prj">> }

HasShp(files) == \E k \in DOMAIN files : files[k] = "shp"

\* admin_gdf[admin_attribute].unique()
unique_values(layer) == {layer.features[k].val : k \in DOMAIN layer.features}

\* the pairs <<admin_attribute, admin_value>> the two select boxes can give
Selections(layer) ==
    IF layer.readable /\ layer.features # <<>>
    THEN {<<PyStr(Column), v>> : v \in unique_values(layer)}
    ELSE {<<PyNone, PyNone>>}

Widgets ==
    /\ pc = "widgets"
    /\ remove_black_blocks' \in BOOLEAN
    /\ brightness_threshold' \in Thresholds
    /\ n_rasters' \in 0..MaxRasters
    /\ admin_files' \in Uploads
    /\ shp_content' \in IF HasShp(admin_files') THEN Layers ELSE {NoLayer}
    /\ admin_attribute' = PyNone
    /\ admin_value' = PyNone
    /\ pc' = "save_shp"
    /\ UNCHANGED gridvars
    /\ UNCHANGED <<min_pixel_value, viz_type, fn, i, shp_file, admin_shapefile_path, fs,
                   raw, src_nodata, crs, data, mask_in, mask_ret, filter_in, data_cleaned,
                   shown, total_pixel_count, overlay, errors>>

SaveShapefile ==
    /\ pc = "save_shp"
    /\ shp_file' = (admin_files # <<>> /\ HasShp(admin_files))
    /\ fs' = IF shp_file' THEN fs \cup {ShpPath} ELSE fs
    /\ pc' = IF shp_file' THEN "read_shp" ELSE "rasters"
    /\ UNCHANGED gridvars
    /\ UNCHANGED <<remove_black_blocks, brightness_threshold, min_pixel_value, n_rasters,
                   viz_type, fn, i, admin_files, shp_content, admin_attribute, admin_value,
                   admin_shapefile_path, raw, src_nodata, crs, data, mask_in, mask_ret,
                   filter_in, data_cleaned, shown, total_pixel_count, overlay, errors>>

ReadShapefile ==
    /\ pc = "read_shp"
    /\ \E sel \in Selections(shp_content) :
        /\ admin_attribute' = sel[1]
        /\ admin_value' = sel[2]
    /\ admin_files' = IF shp_content.readable THEN admin_files ELSE <<>>
    /\ errors' = IF shp_content.readable THEN errors ELSE errors + 1
    /\ fs' = fs \ {ShpPath}   \* leaving `with tempfile.TemporaryDirectory()`
    /\ pc' = "rasters"
    /\ UNCHANGED gridvars
    /\ UNCHANGED <<remove_black_blocks, brightness_threshold, min_pixel_value, n_rasters,
                   viz_type, fn, i, shp_file, shp_content, admin_shapefile_path, raw,
                   src_nodata, crs, data, mask_in, mask_ret, filter_in, data_cleaned,
                   shown, total_pixel_count, overlay>>

SaveRasters ==
    /\ pc = "rasters"
    /\ IF n_rasters > 0
       THEN /\ fs' = fs \cup {RasterDir}
            /\ admin_shapefile_path' =
                  IF admin_files # <<>> /\ shp_file THEN PyStr(ShpPath.name) ELSE PyNone
            /\ \E v \in VizTypes, selected_idx \in 0..(n_rasters - 1) :
                /\ viz_type' = v
                /\ fn' = FirstPass(v)
                /\ i' = IF v = "Single View" THEN selected_idx ELSE 0
                /\ pc' = IF v = "Peta Interaktif" THEN "overlay" ELSE "open"
       ELSE /\ pc' = "done"
            /\ UNCHANGED <<fs, admin_shapefile_path, viz_type, fn, i>>
    /\ UNCHANGED gridvars
    /\ UNCHANGED <<remove_black_blocks, brightness_threshold, min_pixel_value, n_rasters,
                   admin_files, shp_file, shp_content, admin_attribute, admin_value, raw,
                   src_nodata, crs, data, mask_in, mask_ret, filter_in, data_cleaned,
                   shown, total_pixel_count, overlay, errors>>

Init ==
    /\ pc = "widgets"
    /\ remove_black_blocks = TRUE
    /\ brightness_threshold = Num(10)
    /\ min_pixel_value = Num(DefaultMinPixelValue)
    /\ n_rasters = 0
    /\ viz_type = ""
    /\ fn = ""
    /\ i = 0
    /\ admin_files = <<>>
    /\ shp_file = FALSE
    /\ shp_content = NoLayer
    /\ admin_attribute = PyNone
    /\ admin_value = PyNone
    /\ admin_shapefile_path = PyNone
    /\ fs = {}
    /\ raw = NoArray
    /\ src_nodata = NoNodata
    /\ crs = "none"
    /\ data = NoArray
    /\ mask_in = NoArray
    /\ mask_ret = NoMaskCall
    /\ filter_in = NoArray
    /\ data_cleaned = NoArray
    /\ shown = NoArray
    /\ total_pixel_count = 0
    /\ overlay = NoOverlay
    /\ errors = 0
    /\ n_cols = 0
    /\ n_rows = 0
    /\ axes = <<>>
    /\ j = 0

Next == Widgets \/ SaveShapefile \/ ReadShapefile \/ SaveRasters \/ PipelineNext

Spec == Init /\ [][Next]_vars

----------------------------------------------------------------------------
(* The pipelines entered with any arguments: the shapefile path may name a  *)
(* file that exists, and the attribute and value need not come from the UI. *)

AttrValues == {PyNone, PyInt(0), PyInt(1), PyStr(""), PyStr("A")}
AttrNames == {PyNone, PyStr(Column), PyStr("NAMA")}

VizInit ==
    /\ viz_type \in VizTypes
    /\ fn = FirstPass(viz_type)
    /\ pc = IF viz_type = "Peta Interaktif" THEN "overlay" ELSE "open"
    /\ remove_black_blocks \in BOOLEAN
    /\ brightness_threshold \in Thresholds
    /\ min_pixel_value = Num(DefaultMinPixelValue)
    /\ n_rasters = 1
    /\ i = 0
    /\ admin_files = <<>>
    /\ shp_file = FALSE
    /\ admin_shapefile_path \in {PyNone, PyStr(ShpPath.name)}
    /\ fs \in IF Truthy(admin_shapefile_path)
              THEN {{RasterDir}, {RasterDir, ShpPath}} ELSE {{RasterDir}}
    /\ shp_content \in IF ShpPath \in fs THEN Layers ELSE {NoLayer}
    /\ admin_attribute \in IF Truthy(admin_shapefile_path) THEN AttrNames ELSE {PyNone}
    /\ admin_value \in IF Truthy(admin_shapefile_path) THEN AttrValues ELSE {PyNone}
    /\ raw = NoArray
    /\ src_nodata = NoNodata
    /\ crs = "none"
    /\ data = NoArray
    /\ mask_in = NoArray
    /\ mask_ret = NoMaskCall
    /\ filter_in = NoArray
    /\ data_cleaned = NoArray
    /\ shown = NoArray
    /\ total_pixel_count = 0
    /\ overlay = NoOverlay
    /\ errors = 0
    /\ n_cols = 0
    /\ n_rows = 0
    /\ axes = <<>>
    /\ j = 0

VizNext == PipelineNext

VizSpec == VizInit /\ [][VizNext]_vars

----------------------------------------------------------------------------
(* The filter on its own, applied to any array, threshold and minimum value *)

FilterPos == 1..FilterLen
FilterValues == {-1, 0, 1, 20, 60}
FilterArrays == [FilterPos -> {NaN} \cup {Num(v) : v \in FilterValues}]
FilterThresholds == {Num(0), Num(10), Num(50), Num(100)}
FilterMinValues == {Num(-2), Num(1), Num(30)}

FilterInit ==
    /\ pc = "filter_call"
    /\ data \in FilterArrays
    /\ brightness_threshold \in FilterThresholds
    /\ min_pixel_value \in FilterMinValues
    /\ remove_black_blocks = TRUE
    /\ n_rasters = 0
    /\ viz_type = ""
    /\ fn = ""
    /\ i = 0
    /\ admin_files = <<>>
    /\ shp_file = FALSE
    /\ shp_content = NoLayer
    /\ admin_attribute = PyNone
    /\ admin_value = PyNone
    /\ admin_shapefile_path = PyNone
    /\ fs = {}
    /\ raw = NoArray
    /\ src_nodata = NoNodata
    /\ crs = "none"
    /\ mask_in = NoArray
    /\ mask_ret = NoMaskCall
    /\ filter_in = NoArray
    /\ data_cleaned = NoArray
    /\ shown = NoArray
    /\ total_pixel_count = 0
    /\ overlay = NoOverlay
    /\ errors = 0
    /\ n_cols = 0
    /\ n_rows = 0
    /\ axes = <<>>
    /\ j = 0

FilterCall ==
    /\ pc = "filter_call"
    /\ filter_in' = data
    /\ data_cleaned' =
          remove_black_blocks_and_keep_bright_pixels(data, brightness_threshold,
                                                     min_pixel_value)
    /\ data' = InputAfterFilter(data, brightness_threshold, min_pixel_value)
    /\ pc' = "filter_returned"
    /\ UNCHANGED gridvars
    /\ UNCHANGED <<remove_black_blocks, brightness_threshold, min_pixel_value, n_rasters,
                   viz_type, fn, i, admin_files, shp_file, shp_content, admin_attribute,
                   admin_value, admin_shapefile_path, fs, raw, src_nodata, crs, mask_in,
                   mask_ret, shown, total_pixel_count, overlay, errors>>

FilterNext == FilterCall

FilterSpec == FilterInit /\ [][FilterNext]_vars

----------------------------------------------------------------------------
(* Properties of remove_black_blocks_and_keep_bright_pixels (FilterSpec) *)

\* the non-missing samples of the filter's input, in units of 1/Scale
Samples == {filter_in[p].num : p \in NonNan(filter_in)}
lo == CHOOSE m \in Samples : \A x \in Samples : m <= x
hi == CHOOSE m \in Samples : \A x \in Samples : x <= m

Returned == pc = "filter_returned"

\* (v - lo) / (hi - lo) > threshold, for hi > lo
AboveNormalized(v) ==
    (v.num - lo) * brightness_threshold.den > brightness_threshold.num * (hi - lo)
\* v > threshold
AboveRaw(v) == v.num * brightness_threshold.den > brightness_threshold.num * v.den
\* v > min_abs_value
AboveMin(v) == v.num * min_pixel_value.den > min_pixel_value.num * v.den

\* C1: when the non-missing samples have hi > lo, the result holds the input sample v
\* exactly where (v - lo) / (hi - lo) > threshold, v > min_abs_value and v is not
\* missing, and NaN at every other position.
C1_KeepsExactlyBrightValid ==
    (Returned /\ Samples # {} /\ hi > lo) =>
        \A p \in DOMAIN filter_in :
            data_cleaned[p] =
                IF ~isnan(filter_in[p]) /\ AboveNormalized(filter_in[p])
                   /\ AboveMin(filter_in[p])
                THEN filter_in[p] ELSE NaN

C1_Witness ==
    /\ Returned /\ Samples # {} /\ hi > lo
    /\ \E p \in DOMAIN filter_in : ~isnan(data_cleaned[p])
    /\ \E p \in DOMAIN filter_in :
          /\ ~isnan(filter_in[p]) /\ AboveNormalized(filter_in[p])
          /\ ~AboveMin(filter_in[p]) /\ isnan(data_cleaned[p])
    /\ brightness_threshold.num > 0

\* C2: when all non-missing samples are equal (hi = lo) the raw sample is compared to
\* the threshold: v is kept exactly when v > threshold, v > min_abs_value and v is not
\* missing; and no division by zero is evaluated.
C2_DegenerateComparesRaw ==
    (Returned /\ (Samples = {} \/ hi = lo)) =>
        /\ ~DividesByZero(filter_in)
        /\ \A p \in DOMAIN filter_in :
              data_cleaned[p] =
                  IF ~isnan(filter_in[p]) /\ AboveRaw(filter_in[p])
                     /\ AboveMin(filter_in[p])
                  THEN filter_in[p] ELSE NaN

C2_Witness ==
    /\ Returned /\ Samples # {} /\ hi = lo
    /\ Cardinality(NonNan(filter_in)) > 1
    /\ \E p \in DOMAIN filter_in : ~isnan(data_cleaned[p])
    /\ brightness_threshold.num > 0

\* C3: the result has the shape of the input, each position holds the input's sample
\* or NaN, a position missing in the input is missing in the result, and the input
\* array is as it was before the call.
C3_ShapeAndFrame ==
    Returned =>
        /\ DOMAIN data_cleaned = DOMAIN filter_in
        /\ \A p \in DOMAIN filter_in :
              /\ data_cleaned[p] = filter_in[p] \/ data_cleaned[p] = NaN
              /\ isnan(filter_in[p]) => isnan(data_cleaned[p])
        /\ data = filter_in

C3_Witness ==
    /\ Returned
    /\ \E p \in DOMAIN filter_in : isnan(filter_in[p])
    /\ \E p \in DOMAIN filter_in : ~isnan(filter_in[p]) /\ isnan(data_cleaned[p])
    /\ \E p \in DOMAIN filter_in : ~isnan(data_cleaned[p])
    /\ data = filter_in

----------------------------------------------------------------------------
(* Properties of the pipelines as the script runs them (Spec) *)

\* C4: in every pipeline that applies the filter, each sample equal to the raster's
\* nodata marker is NaN in the array the filter is about to receive.
C4_NodataIsNaNBeforeFilter ==
    (pc = "filter" /\ remove_black_blocks) =>
        \A p \in DOMAIN raw : EqNodata(raw[p], src_nodata) => isnan(data[p])

\* C5: when an uploaded shapefile was read and a raster is there, the path given to
\* mask_with_administrative_boundaries names an existing file at the call.
C5_ShapefileExistsAtMaskCall ==
    (pc = "mask" /\ Truthy(admin_shapefile_path)) =>
        PathOf(admin_shapefile_path) \in fs

\* C7: with "Hilangkan Blok Hitam" on, the array handed to rendering or statistics
\* holds at each position NaN or a sample that passed the filter.
C7_NoRejectedSampleShown ==
    (remove_black_blocks /\ shown # NoArray) =>
        \A p \in DOMAIN shown : isnan(shown[p]) \/ ~isnan(data_cleaned[p])

----------------------------------------------------------------------------
(* Properties of mask_with_administrative_boundaries and its callers (VizSpec) *)

MaskReturned == mask_ret.called /\ pc = "filter"
MaskSucceeded == mask_ret.called /\ mask_ret.step = ""
MaskFailed == mask_ret.called /\ mask_ret.step # ""

\* C6: after a mask call that completed without error, every pixel outside the
\* boundary geometries is NaN and every pixel inside holds its original sample, and
\* 'Total Area (px)' counts no outside pixel.
C6_OutsideIsNaN ==
    /\ (MaskReturned /\ MaskSucceeded) =>
          \A p \in DOMAIN data :
              IF p \in mask_ret.inside THEN data[p] = mask_in[p] ELSE isnan(data[p])
    /\ (MaskSucceeded /\ pc = "cleanup" /\ fn \in {"stats", "single_stats"}) =>
          total_pixel_count <= Cardinality(mask_ret.inside)

\* C8: after any mask call has returned, the temporary .tif it created is gone.
C8_TmpTifRemoved ==
    (mask_ret.called /\ mask_ret.created) => mask_ret.tmp \notin fs

\* the geometries C9 expects: the matching features when both an
\* attribute and a value were given, the whole layer otherwise
ExpectedShapes ==
    IF admin_attribute # PyNone /\ admin_value # PyNone
    THEN FeaturesWithValue(shp_content, admin_value)
    ELSE DOMAIN shp_content.features

\* C9: the geometries used by the mask, and by the overlay of the interactive map,
\* are exactly the features whose attribute equals the given value; the whole layer
\* is used only when no attribute or no value was given.
C9_ExactlyMatchingFeatures ==
    /\ (mask_ret.called /\ mask_ret.created) => mask_ret.shapes = ExpectedShapes
    /\ overlay.added => overlay.shapes = ExpectedShapes

\* C10: a mask call in which a step fails does not raise: it reports the error and
\* returns the raster data it was given, unchanged, with None as bounds; the caller
\* goes on to filter and render that unmasked data.
C10_FailureFallsBack ==
    MaskFailed =>
        /\ ~mask_ret.raised
        /\ pc \in {"filter", "render", "cleanup", "done", "open"}
        /\ mask_ret.reported /\ errors >= 1
        /\ mask_ret.bounds_none
        /\ mask_ret.data = mask_in
        /\ pc = "filter" => data = mask_in
        /\ (pc = "render" /\ remove_black_blocks) => filter_in = mask_in
        /\ (pc = "render" /\ ~remove_black_blocks) => data = mask_in
        /\ pc \in {"cleanup", "done"} => shown # NoArray

C10_Witness ==
    /\ MaskFailed
    /\ mask_ret.step = "write"
    /\ pc = "cleanup"
    /\ remove_black_blocks
    /\ filter_in = mask_in
    /\ \E p \in DOMAIN shown : ~isnan(shown[p])

----------------------------------------------------------------------------
(* plot_ntl_comparison: the layout of the comparison grid *)

MaxGridRasters == 7    \* raster paths handed to plot_ntl_comparison

Min(a, b) == IF a < b THEN a ELSE b

\* n_cols = min(3, n_rasters)
GridCols(n) == Min(3, n)

\* n_rows = (n_rasters + n_cols - 1) // n_cols (preceded by a variant that rounds down)
GridRows_Floor(n, cols) == n \div cols
GridRows(n, cols) == (n + cols - 1) \div cols

\* a panel of the figure: what it shows, for which raster, and whether it is visible
Panel(content, raster, visible) ==
    [content |-> content, raster |-> raster, visible |-> visible]
EmptyPanel == Panel("empty", -1, TRUE)

\* plt.subplots(n_rows, n_cols): axes.flat has n_rows * n_cols visible, empty panels
Subplots(rows, cols) == [k \in 0..(rows * cols - 1) |-> EmptyPanel]

\* the first raster the comparison loop has not drawn yet; i is the last one drawn
NextPair == i + 1

\* zip(axes.flat, raster_paths) has another pair
HasNextPair == NextPair < Min(n_rows * n_cols, n_rasters)

\* the variables of the script that plot_ntl_comparison leaves alone
GridFrame ==
    UNCHANGED <<remove_black_blocks, brightness_threshold, min_pixel_value, n_rasters,
                viz_type, fn, admin_files, shp_file, shp_content, admin_attribute,
                admin_value, admin_shapefile_path, fs, raw, src_nodata, crs, data,
                mask_in, mask_ret, filter_in, data_cleaned, shown, total_pixel_count,
                overlay, errors>>

GridSubplots ==
    /\ pc = "grid_call"
    /\ n_cols' = GridCols(n_rasters)
    /\ n_rows' = GridRows(n_rasters, n_cols')
    /\ axes' = Subplots(n_rows', n_cols')
    /\ pc' = "grid_draw"
    /\ UNCHANGED <<i, j>>
    /\ GridFrame

\* one pass of the loop body: the raster is drawn, or the except clause writes the
\* error text into the same panel
GridDraw ==
    /\ pc = "grid_draw"
    /\ HasNextPair
    /\ \E loaded \in BOOLEAN :
        axes' = [axes EXCEPT ![NextPair] =
                    Panel(IF loaded THEN "image" ELSE "error", NextPair, TRUE)]
    /\ i' = NextPair
    /\ UNCHANGED <<pc, n_cols, n_rows, j>>
    /\ GridFrame

\* the loop is exhausted: range(i+1, n_rows*n_cols) starts
GridStartHide ==
    /\ pc = "grid_draw"
    /\ ~HasNextPair
    /\ j' = i + 1
    /\ pc' = "grid_hide"
    /\ UNCHANGED <<i, n_cols, n_rows, axes>>
    /\ GridFrame

GridHide ==
    /\ pc = "grid_hide"
    /\ j < n_rows * n_cols
    /\ axes' = [axes EXCEPT ![j].visible = FALSE]
    /\ j' = j + 1
    /\ UNCHANGED <<pc, i, n_cols, n_rows>>
    /\ GridFrame

GridReturn ==
    /\ pc = "grid_hide"
    /\ ~(j < n_rows * n_cols)
    /\ pc' = "grid_done"
    /\ UNCHANGED <<i, j, n_cols, n_rows, axes>>
    /\ GridFrame

GridInit ==
    /\ pc = "grid_call"
    /\ n_rasters \in 1..MaxGridRasters
    /\ i = -1                      \* the loop variable is not bound yet
    /\ fn = "grid"
    /\ viz_type = "Grid Comparison"
    /\ remove_black_blocks = TRUE
    /\ brightness_threshold = Num(10)
    /\ min_pixel_value = Num(DefaultMinPixelValue)
    /\ admin_files = <<>>
    /\ shp_file = FALSE
    /\ shp_content = NoLayer
    /\ admin_attribute = PyNone
    /\ admin_value = PyNone
    /\ admin_shapefile_path = PyNone
    /\ fs = {RasterDir}
    /\ raw = NoArray
    /\ src_nodata = NoNodata
    /\ crs = "none"
    /\ data = NoArray
    /\ mask_in = NoArray
    /\ mask_ret = NoMaskCall
    /\ filter_in = NoArray
    /\ data_cleaned = NoArray
    /\ shown = NoArray
    /\ total_pixel_count = 0
    /\ overlay = NoOverlay
    /\ errors = 0
    /\ n_cols = 0
    /\ n_rows = 0
    /\ axes = <<>>
    /\ j = 0

GridNext == GridSubplots \/ GridDraw \/ GridStartHide \/ GridHide \/ GridReturn

GridSpec == GridInit /\ [][GridNext]_vars

\* C11: for n >= 1 raster paths the grid has min(3, n) columns and ceil(n / columns)
\* rows, raster k is drawn in panel k for every k < n, and every remaining panel
\* n .. rows*columns - 1 is hidden; there are fewer of those than columns.
C11_GridLayout ==
    pc = "grid_done" =>
        /\ n_cols = (IF n_rasters < 3 THEN n_rasters ELSE 3)
        /\ n_rows * n_cols >= n_rasters
        /\ (n_rows - 1) * n_cols < n_rasters
        /\ DOMAIN axes = 0..(n_rows * n_cols - 1)
        /\ \A k \in 0..(n_rasters - 1) :
              /\ k \in DOMAIN axes
              /\ axes[k].raster = k
              /\ axes[k].content \in {"image", "error"}
              /\ axes[k].visible
        /\ \A k \in n_rasters..(n_rows * n_cols - 1) :
              /\ ~axes[k].visible
              /\ axes[k].content = "empty"
        /\ n_rows * n_cols - n_rasters < n_cols

C11_Witness ==
    /\ pc = "grid_done"
    /\ n_rasters = 7
    /\ n_rows = 3
    /\ \A k \in 0..6 : axes[k].content = "image" /\ axes[k].visible
    /\ ~axes[7].visible /\ ~axes[8].visible

\* C12: with hi > lo and a threshold in [0, 1], also 0, every sample equal to lo is
\* missing in the result, no sample <= min_abs_value is kept, and the result has
\* strictly fewer non-missing samples than the input.
C12_MinimumAlwaysDropped ==
    (Returned /\ Samples # {} /\ hi > lo) =>
        /\ \A p \in NonNan(filter_in) :
              /\ filter_in[p].num = lo => isnan(data_cleaned[p])
              /\ ~AboveMin(filter_in[p]) => isnan(data_cleaned[p])
        /\ Cardinality(NonNan(data_cleaned)) < Cardinality(NonNan(filter_in))

C12_Witness ==
    /\ Returned /\ Samples # {} /\ hi > lo
    /\ brightness_threshold.num = 0
    /\ \E p \in NonNan(filter_in) :
          filter_in[p].num = lo /\ AboveMin(filter_in[p]) /\ isnan(data_cleaned[p])
    /\ \E p \in NonNan(filter_in) : ~isnan(data_cleaned[p])

====
